---- MODULE Spec2Model ----
(***************************************************************************)
(* Model of the integer math utilities of the hello_testing_frameworks     *)
(* sample (src/math_utils.cpp): Add, Subtract, Multiply, Divide, IsPrime   *)
(* and Factorial.  One behaviour of the model is one call of one function  *)
(* on one input; the two loops (IsPrime, Factorial) advance one iteration  *)
(* per step.                                                               *)
(*                                                                         *)
(* `int' is a fixed-width two's-complement type of IntBits bits.  The      *)
(* program's int has 32 bits; the model is parametric in the width and is  *)
(* explored at a small width so that every value of the type, the largest  *)
(* and the smallest included, is an input (at 8 bits INT_MAX = 127 is a    *)
(* Mersenne prime, as 2^31 - 1 is).  `long long' keeps its 64 bits.        *)
(*                                                                         *)
(* Signed overflow is undefined behaviour in C++.  The builds differ in    *)
(* what they make of it: `build' is "wrap" for a build whose arithmetic    *)
(* wraps modulo 2^w (the plain machine instructions, -fwrapv) and "trap"   *)
(* for a build that aborts the process on overflow (-ftrapv, a trapping    *)
(* sanitizer).  INT_MIN / -1 aborts the process on x86 (#DE) and yields    *)
(* INT_MIN on other targets, whatever the build's flags are.               *)
(***************************************************************************)
EXTENDS Integers, Sequences, FiniteSets, TLC

\* Width of int in the model (the program's int has 32 bits).
IntBits == 8

\* Binary operations are called on the pairs of the values within MaxSmall
\* of zero and of the values at both ends of the int range.
MaxSmall == 6

\* Width of long long, the return type of Factorial.
LLBits == 64

INT_MAX == 2^(IntBits - 1) - 1
INT_MIN == -(2^(IntBits - 1))

IntRange == INT_MIN..INT_MAX

\* x is representable in int
InInt(x) == INT_MIN <= x /\ x <= INT_MAX

\* the int a wrapping build stores for the mathematical value x
WrapInt(x) == ((x - INT_MIN) % (2^IntBits)) + INT_MIN

Abs(x) == IF x < 0 THEN -x ELSE x

\* C++ integer division x / y (y # 0): the quotient truncated toward zero
CDiv(x, y) ==
    IF (x < 0) = (y < 0) THEN Abs(x) \div Abs(y) ELSE -(Abs(x) \div Abs(y))

\* C++ remainder x % y (y # 0): (x / y) * y + x % y == x
CRem(x, y) == x - CDiv(x, y) * y

(***************************************************************************)
(* long long: a value is its two's-complement representation, NumLimbs     *)
(* limbs of 16 bits, least significant first (TLC's own integers have 32   *)
(* bits).                                                                  *)
(***************************************************************************)
LimbBase == 2^16
NumLimbs == LLBits \div 16

ZeroLimbs(k) == [j \in 1..k |-> 0]

\* the long long of a non-negative value below LimbBase^2
LLOf(x) == <<x % LimbBase, x \div LimbBase>> \o ZeroLimbs(NumLimbs - 2)

\* the long long r is negative (its sign bit is set)
LLNegative(r) == r[NumLimbs] >= LimbBase \div 2

RECURSIVE MulLimbs(_, _, _)
\* limbs of s * m + carry modulo LimbBase^Len(s), for 0 <= m < LimbBase
MulLimbs(s, m, carry) ==
    IF s = <<>> THEN <<>>
    ELSE LET p == Head(s) * m + carry
         IN  <<p % LimbBase>> \o MulLimbs(Tail(s), m, p \div LimbBase)

RECURSIVE IncLimbs(_)
\* limbs of s + 1 modulo LimbBase^Len(s)
IncLimbs(s) ==
    IF s = <<>> THEN <<>>
    ELSE IF Head(s) = LimbBase - 1 THEN <<0>> \o IncLimbs(Tail(s))
    ELSE <<Head(s) + 1>> \o Tail(s)

\* limbs of -s modulo LimbBase^Len(s) (two's complement)
NegLimbs(s) == IncLimbs([j \in 1..Len(s) |-> LimbBase - 1 - s[j]])

\* the long long a wrapping build stores for r * m, r a long long and m an
\* int: the product modulo 2^LLBits
WrapMul(r, m) ==
    IF m < 0 THEN NegLimbs(MulLimbs(r, -m, 0)) ELSE MulLimbs(r, m, 0)

\* the magnitude of the mathematical product r * m, one limb longer than r
ExactMulMag(r, m) ==
    MulLimbs((IF LLNegative(r) THEN NegLimbs(r) ELSE r) \o <<0>>, Abs(m), 0)

\* the mathematical product r * m is representable in long long: its
\* magnitude is below 2^(LLBits - 1), or it is -2^(LLBits - 1)
InLL(r, m) ==
    LET mag == ExactMulMag(r, m)
    IN  /\ mag[NumLimbs + 1] = 0
        /\ \/ mag[NumLimbs] < LimbBase \div 2
           \/ /\ LLNegative(r) # (m < 0)
              /\ mag = ZeroLimbs(NumLimbs - 1) \o <<LimbBase \div 2, 0>>

(***************************************************************************)
(* State: one call.                                                        *)
(***************************************************************************)
VARIABLES
    build,   \* what the build makes of signed overflow: "wrap" or "trap"
    op,      \* the function called
    a,       \* first argument (n of IsPrime and Factorial)
    b,       \* second argument (0 for IsPrime and Factorial)
    pc,      \* "call": not yet entered; "loop": in the for loop;
             \* "returned"; "thrown": left by std::invalid_argument;
             \* "trapped": the process was aborted
    i,       \* the loop variable of IsPrime and of Factorial
    ret,     \* the int returned by Add, Subtract, Multiply, Divide
    prime,   \* the bool returned by IsPrime
    result   \* Factorial's accumulator, the long long it returns

vars == <<build, op, a, b, pc, i, ret, prime, result>>

Builds == {"wrap", "trap"}
BinaryOps == {"Add", "Subtract", "Multiply", "Divide"}
UnaryOps == {"IsPrime", "Factorial"}

\* arguments of the binary operations
BinaryArgs ==
    ((-MaxSmall)..MaxSmall) \cup {INT_MIN, INT_MIN + 1, INT_MAX - 1, INT_MAX}

Init ==
    /\ build \in Builds
    /\ \/ op \in BinaryOps /\ a \in BinaryArgs /\ b \in BinaryArgs
       \/ op \in UnaryOps /\ a \in IntRange /\ b = 0
    /\ pc = "call"
    /\ i = 0
    /\ ret = 0
    /\ prime = FALSE
    /\ result = LLOf(0)

\* the call ends returning the int expression of mathematical value x:
\* x itself when it is representable; otherwise (signed overflow) the
\* wrapped value in a wrapping build, an abort in a trapping one
ReturnInt(x) ==
    IF InInt(x) \/ build = "wrap"
    THEN pc' = "returned" /\ ret' = WrapInt(x)
    ELSE pc' = "trapped" /\ ret' = ret

\* slip: the body of Subtract pasted into Add
Add_AsSubtract(x, y) == x - y

\* a + b
Add(x, y) == x + y

\* slip: the body of Add pasted into Subtract
Subtract_AsAdd(x, y) == x + y

\* a - b
Subtract(x, y) == x - y

\* a * b
Multiply(x, y) == x * y

CallAdd ==
    /\ pc = "call" /\ op = "Add"
    /\ ReturnInt(Add(a, b))
    /\ UNCHANGED <<build, op, a, b, i, prime, result>>

CallSubtract ==
    /\ pc = "call" /\ op = "Subtract"
    /\ ReturnInt(Subtract(a, b))
    /\ UNCHANGED <<build, op, a, b, i, prime, result>>

CallMultiply ==
    /\ pc = "call" /\ op = "Multiply"
    /\ ReturnInt(Multiply(a, b))
    /\ UNCHANGED <<build, op, a, b, i, prime, result>>

\* slip: the zero check left out, so that a / 0 is evaluated, which
\* aborts the process
Divide_NoCheck(x, y) ==
    IF y = 0 \/ ~InInt(CDiv(x, y))
    THEN pc' = "trapped" /\ ret' = ret
    ELSE pc' = "returned" /\ ret' = CDiv(x, y)

\* if (b == 0) throw std::invalid_argument(...); return a / b;
Divide(x, y) ==
    IF y = 0
    THEN pc' = "thrown" /\ ret' = ret
    ELSE IF InInt(CDiv(x, y))
    THEN pc' = "returned" /\ ret' = CDiv(x, y)
    ELSE \* INT_MIN / -1: the quotient is not representable
         \/ pc' = "trapped" /\ ret' = ret
         \/ pc' = "returned" /\ ret' = WrapInt(CDiv(x, y))

CallDivide ==
    /\ pc = "call" /\ op = "Divide"
    /\ Divide(a, b)
    /\ UNCHANGED <<build, op, a, b, i, prime, result>>

\* slip: n < 1 for n < 2
IsPrimeBelowTwo_OffByOne(n) == n < 1

\* if (n < 2) return false;
IsPrimeBelowTwo(n) == n < 2

\* lines 32-37 of IsPrime and the loop's initialisation int i = 3
IsPrimeEntry ==
    /\ pc = "call" /\ op = "IsPrime"
    /\ IF IsPrimeBelowTwo(a)
       THEN pc' = "returned" /\ prime' = FALSE /\ i' = i
       ELSE IF a = 2
       THEN pc' = "returned" /\ prime' = TRUE /\ i' = i
       ELSE IF CRem(a, 2) = 0
       THEN pc' = "returned" /\ prime' = FALSE /\ i' = i
       ELSE pc' = "loop" /\ prime' = prime /\ i' = 3
    /\ UNCHANGED <<build, op, a, b, ret, result>>

\* one evaluation of the loop condition i * i <= n and, when it holds, one
\* iteration: if (n % i == 0) return false; i += 2.  i * i and i + 2 are
\* int expressions: when one overflows the build decides
IsPrimeLoop ==
    /\ pc = "loop" /\ op = "IsPrime"
    /\ IF build = "trap" /\ ~InInt(i * i)
       THEN pc' = "trapped" /\ prime' = prime /\ i' = i
       ELSE IF WrapInt(i * i) <= a
       THEN IF CRem(a, i) = 0
            THEN pc' = "returned" /\ prime' = FALSE /\ i' = i
            ELSE IF build = "trap" /\ ~InInt(i + 2)
            THEN pc' = "trapped" /\ prime' = prime /\ i' = i
            ELSE pc' = "loop" /\ prime' = prime /\ i' = WrapInt(i + 2)
       ELSE pc' = "returned" /\ prime' = TRUE /\ i' = i
    /\ UNCHANGED <<build, op, a, b, ret, result>>

\* slip: n < -1 for n < 0
FactorialRejects_OffByOne(n) == n < -1

\* if (n < 0) throw std::invalid_argument(...)
FactorialRejects(n) == n < 0

\* slip: i < n for i <= n
FactorialContinue_Strict(k, n) == k < n

\* the loop condition i <= n of Factorial
FactorialContinue(k, n) == k <= n

\* lines 49-57 of Factorial, up to the loop's initialisation int i = 2
FactorialEntry ==
    /\ pc = "call" /\ op = "Factorial"
    /\ IF FactorialRejects(a)
       THEN pc' = "thrown" /\ result' = result /\ i' = i
       ELSE IF a = 0 \/ a = 1
       THEN pc' = "returned" /\ result' = LLOf(1) /\ i' = i
       ELSE pc' = "loop" /\ result' = LLOf(1) /\ i' = 2
    /\ UNCHANGED <<build, op, a, b, ret, prime>>

\* one evaluation of the loop condition i <= n and, when it holds, one
\* iteration: result *= i; ++i.  result * i is a long long expression and
\* i + 1 an int expression: when one overflows the build decides
FactorialLoop ==
    /\ pc = "loop" /\ op = "Factorial"
    /\ IF FactorialContinue(i, a)
       THEN IF build = "trap" /\ ~InLL(result, i)
            THEN pc' = "trapped" /\ result' = result /\ i' = i
            ELSE IF build = "trap" /\ ~InInt(i + 1)
            THEN pc' = "trapped" /\ result' = WrapMul(result, i) /\ i' = i
            ELSE /\ pc' = "loop"
                 /\ result' = WrapMul(result, i)
                 /\ i' = WrapInt(i + 1)
       ELSE pc' = "returned" /\ result' = result /\ i' = i
    /\ UNCHANGED <<build, op, a, b, ret, prime>>

Next ==
    \/ CallAdd
    \/ CallSubtract
    \/ CallMultiply
    \/ CallDivide
    \/ IsPrimeEntry
    \/ IsPrimeLoop
    \/ FactorialEntry
    \/ FactorialLoop

Spec == Init /\ [][Next]_vars

\* a call runs on its own thread of control until it ends: a step that is
\* possible is eventually taken
FairSpec == Spec /\ WF_vars(Next)

Terminated == pc \in {"returned", "thrown", "trapped"}

(***************************************************************************)
(* Reference definitions used by the properties.                           *)
(***************************************************************************)
\* n is prime: n >= 2 and no d with 1 < d < n divides n
RefIsPrime(n) == n >= 2 /\ \A d \in 2..(n - 1) : n % d # 0

RECURSIVE ProductUpTo(_)
\* the exact product 1 * 2 * ... * n, as NumLimbs + 1 limbs
ProductUpTo(n) ==
    IF n = 0 THEN <<1>> \o ZeroLimbs(NumLimbs)
    ELSE MulLimbs(ProductUpTo(n - 1), n, 0)

Sign(x) == IF x < 0 THEN -1 ELSE IF x > 0 THEN 1 ELSE 0

(***************************************************************************)
(* Properties.                                                             *)
(***************************************************************************)

\* C1: for every a, Divide(a, 0) ends by throwing std::invalid_argument:
\* the call never returns a quotient and never reaches the division (which
\* would abort the process), and ret is left as it was.
C1_DivideByZeroThrows ==
    (op = "Divide" /\ b = 0) =>
        /\ pc \in {"call", "thrown"}
        /\ ret = 0

C1_Witness == op = "Divide" /\ b = 0 /\ a = INT_MIN /\ pc = "thrown"

\* C2: for every n < 0, Factorial(n) ends by throwing std::invalid_argument:
\* it returns no value and the accumulation loop is never entered (pc is
\* never "loop", and neither i nor result is initialised).
C2_FactorialNegativeThrows ==
    (op = "Factorial" /\ a < 0) =>
        /\ pc \in {"call", "thrown"}
        /\ i = 0
        /\ result = LLOf(0)

C2_Witness == op = "Factorial" /\ a = INT_MIN /\ pc = "thrown"

\* C3: for every int n, the largest included, IsPrime(n) returns, and
\* returns true exactly when n is prime.
C3_IsPrimeCorrect ==
    (op = "IsPrime" /\ Terminated) =>
        (pc = "returned" /\ prime = RefIsPrime(a))

\* C4: for every n with 0 <= n <= 20, Factorial(n) returns exactly the
\* product 1 * 2 * ... * n (which fits long long), with
\* Factorial(0) = Factorial(1) = 1 and Factorial(5) = 120.
C4_FactorialExact ==
    (op = "Factorial" /\ a \in 0..20 /\ Terminated) =>
        /\ pc = "returned"
        /\ ~LLNegative(result)
        /\ result \o <<0>> = ProductUpTo(a)
        /\ (a \in {0, 1} => result = LLOf(1))
        /\ (a = 5 => result = LLOf(120))

C4_Witness ==
    op = "Factorial" /\ a = 20 /\ pc = "returned" /\ result[NumLimbs] > 0

\* C5: for all a, b with b # 0, Divide(a, b) returns the quotient q
\* truncated toward zero: r = a - q * b satisfies |r| < |b| and r is 0 or
\* has the sign of a.
C5_DivideTruncates ==
    (op = "Divide" /\ b # 0 /\ Terminated) =>
        /\ pc = "returned"
        /\ LET r == a - ret * b
           IN  Abs(r) < Abs(b) /\ (r = 0 \/ Sign(r) = Sign(a))

\* C6: std::invalid_argument covers exactly the zero divisor and the
\* negative factorial argument; every other call, however extreme its
\* input, ends by returning a value: it neither throws nor aborts.
C6_OnlyTwoFailures ==
    Terminated =>
        IF (op = "Divide" /\ b = 0) \/ (op = "Factorial" /\ a < 0)
        THEN pc = "thrown"
        ELSE pc = "returned"

\* C7: every call of every operation completes: the loops of IsPrime and
\* of Factorial eventually exit, for every n up to the largest int.
C7_EveryCallCompletes == <>Terminated

\* C8: IsPrime(n) is false for every n < 2, true for n = 2 and false for
\* every even n > 2, and is decided without entering the trial-division
\* loop (pc is never "loop" and i is never initialised).
C8_IsPrimeSmallAndEven ==
    (op = "IsPrime" /\ (a <= 2 \/ a % 2 = 0)) =>
        /\ pc \in {"call", "returned"}
        /\ i = 0
        /\ (pc = "returned" => prime = (a = 2))

C8_Witness ==
    op = "IsPrime" /\ a = INT_MAX - 1 /\ pc = "returned" /\ ~prime

\* C9: with overflow wrapping modulo 2^w, for all a, b Add(a, b) returns,
\* Add(a, b) = Add(b, a), and Subtract(Add(a, b), b) = a.
C9_AddCommutesAndInverts ==
    (build = "wrap" /\ op = "Add" /\ pc # "call") =>
        /\ pc = "returned"
        /\ ret = WrapInt(Add(b, a))
        /\ WrapInt(Subtract(ret, b)) = a

C9_Witness ==
    /\ build = "wrap" /\ op = "Add" /\ pc = "returned"
    /\ ~InInt(a + b) /\ ~InInt(ret - b)

\* C10: with overflow wrapping modulo 2^w (the negation included), for all
\* a, b Subtract(a, b) returns and Subtract(a, b) = -Subtract(b, a), also
\* when a difference is the most negative int.
C10_SubtractAntisymmetric ==
    (build = "wrap" /\ op = "Subtract" /\ pc # "call") =>
        /\ pc = "returned"
        /\ ret = WrapInt(-WrapInt(Subtract(b, a)))

C10_Witness ==
    /\ build = "wrap" /\ op = "Subtract" /\ pc = "returned"
    /\ ~InInt(a - b) /\ ret = INT_MIN
====
